---------------------------- MODULE Spec2Model ----------------------------
(***************************************************************************)
(* Pendulum explorer: the simulation loop of src/App.tsx (fixed-timestep   *)
(* RK4 integrator, time accumulator, mode state machine).                  *)
(*                                                                         *)
(* Numbers.  The program computes in IEEE doubles; the model computes in   *)
(* exact integer arithmetic on fixed grids:                                *)
(*   - wall-clock timestamps, the frame delta, the accumulator, DT and     *)
(*     the simulated time are in milliseconds (DT = 0.016 s = 16 ms,       *)
(*     the 0.1 s clamp = 100 ms);                                          *)
(*   - theta, omega and alpha are in 1/Scale rad, rad/s, rad/s^2;          *)
(*   - length, mass and gravity are in tenths (the sliders step by 0.1).   *)
(* Math.sin is its Taylor polynomial up to x^5, exact to the grid for the  *)
(* angles a 30 degree pendulum reaches.                                    *)
(***************************************************************************)
EXTENDS Integers, Naturals, Sequences, FiniteSets, TLC

(***************************************************************************)
(* Bounds of the model (not program constants).                            *)
(***************************************************************************)
\* the host clock stops delivering frames after MaxClock milliseconds
MaxClock == 500
\* number of user commands (buttons, slider moves) in one behaviour
MaxCommands == 2
\* the horizon of the steady-frame specification, ms
MaxClockLong == 2400
\* number of frames whose timestamp lies before the previous one
MaxBackward == 1
\* the time (ms) before the end of the horizon by which a halt is awaited
HaltWindow == 1400

(***************************************************************************)
(* Program constants.                                                      *)
(***************************************************************************)
\* constants.ts: GRAVITY = 9.8 m/s^2, in tenths
GRAVITY == 98
\* constants.ts: DT = 0.016 s, in ms
DT == 16
\* App.tsx animate: Math.min(..., 0.1), in ms
MaxFrameTime == 100
\* App.tsx animate: prevState.theta > 0.1, in 1/Scale rad
TopThreshold == 1000
\* App.tsx INITIAL_PARAMS, in tenths / degrees
InitialMass == 20
InitialLength == 20
InitialAngle == 30
\* resolution of the fixed-point grid for theta, omega, alpha
Scale == 10000
\* Math.PI on that grid
PiScaled == 31416
\* lastTimeRef.current === undefined
Undefined == -1

\* the positions of the length slider the model moves it to (0.5 m and 2.0 m)
Lengths == {5, 20}
\* the positions of the mass slider the model moves it to (2.0 kg and 5.0 kg)
Masses == {20, 50}
\* the wall-clock distance of two consecutive frame callbacks, ms
FrameDeltas == {50, 100, 150}
\* the distance of the frames of a steady display, ms (clamped: 10 fps)
SteadyDeltas == {100}
\* how far a frame timestamp may lie before the stored one, ms
BackwardDeltas == {50}

Modes == {"RUNNING", "PAUSED", "PAUSE_AT_BOTTOM", "PAUSE_AT_TOP"}

VARIABLES
    params,          \* useState<PhysicsParams>
    state,           \* useState<SimulationState>: the published state
    stateRef,        \* stateRef.current: the loop's internal state
    mode,            \* useState<SimulationMode>
    lastTimeRef,     \* lastTimeRef.current, Undefined or a timestamp
    accumulatorRef,  \* accumulatorRef.current
    clock,           \* the host's frame clock: the last timestamp it delivered
    op,              \* the operation that produced this state
    steps,           \* integration steps the last frame call performed
    prevMode,        \* the mode before that operation
    cmds,            \* user commands issued so far
    back,            \* frames delivered with a timestamp that stepped back
    published,       \* setState(SimulationState) calls of that operation
    agm              \* the activation of calculateExactPeriod (DataDisplay)

vars == <<params, state, stateRef, mode, lastTimeRef, accumulatorRef,
          clock, op, steps, prevMode, cmds, back, published, agm>>

(***************************************************************************)
(* Arithmetic helpers.                                                     *)
(***************************************************************************)
\* division rounding toward zero (symmetric in the sign of a)
Div(a, b) == IF a >= 0 THEN a \div b ELSE -((-a) \div b)

Min(a, b) == IF a <= b THEN a ELSE b

\* Math.sin on the fixed-point grid
Sin(x) ==
    LET x2 == Div(x * x, Scale)
        x3 == Div(x2 * x, Scale)
        x5 == Div(x3 * x2, Scale)
    IN  x - Div(x3, 6) + Div(x5, 120)

(***************************************************************************)
(* updatePhysics: one RK4 step of size dt (ms).                            *)
(***************************************************************************)
evaluateDerivatives(p, th, om) ==
    [dTheta |-> om, dOmega |-> -Div(p.gravity * Sin(th), p.length)]

\* mutant of AdvanceTime: the step forgets to add dt
AdvanceTimeStuck(t, dt) == t

\* time: currentState.time + dt
AdvanceTime(t, dt) == t + dt

updatePhysics(currentState, currentParams, dt) ==
    LET theta == currentState.theta
        omega == currentState.omega
        k1 == evaluateDerivatives(currentParams, theta, omega)
        k2 == evaluateDerivatives(currentParams,
                                  theta + Div(k1.dTheta * dt, 2000),
                                  omega + Div(k1.dOmega * dt, 2000))
        k3 == evaluateDerivatives(currentParams,
                                  theta + Div(k2.dTheta * dt, 2000),
                                  omega + Div(k2.dOmega * dt, 2000))
        k4 == evaluateDerivatives(currentParams,
                                  theta + Div(k3.dTheta * dt, 1000),
                                  omega + Div(k3.dOmega * dt, 1000))
        newTheta == theta + Div(dt * (k1.dTheta + 2 * k2.dTheta
                                      + 2 * k3.dTheta + k4.dTheta), 6000)
        newOmega == omega + Div(dt * (k1.dOmega + 2 * k2.dOmega
                                      + 2 * k3.dOmega + k4.dOmega), 6000)
        newAlpha == -Div(currentParams.gravity * Sin(newTheta),
                         currentParams.length)
    IN  [theta |-> newTheta, omega |-> newOmega, alpha |-> newAlpha,
         time |-> AdvanceTime(currentState.time, dt)]

(***************************************************************************)
(* initializeState / INITIAL_STATE.                                        *)
(***************************************************************************)
StartState(p) ==
    [theta |-> Div(p.initialAngle * PiScaled, 180),
     omega |-> 0, alpha |-> 0, time |-> 0]

INITIAL_PARAMS ==
    [mass |-> InitialMass, length |-> InitialLength,
     gravity |-> GRAVITY, initialAngle |-> InitialAngle]

(***************************************************************************)
(* The pause conditions checked after each integration step.               *)
(***************************************************************************)
\* mutant of BottomCrossed: the crossing from below is not tested
BottomCrossedDownOnly(prevState, nextState) ==
    prevState.theta > 0 /\ nextState.theta <= 0

\* mutant of BottomCrossed: the pre-step tests are not strict
BottomCrossedNonStrict(prevState, nextState) ==
    \/ prevState.theta >= 0 /\ nextState.theta <= 0
    \/ prevState.theta <= 0 /\ nextState.theta >= 0

BottomCrossed(prevState, nextState) ==
    \/ prevState.theta > 0 /\ nextState.theta <= 0
    \/ prevState.theta < 0 /\ nextState.theta >= 0

\* mutant of TopReached: the guard on the pre-step theta is missing
TopReachedAnySide(prevState, nextState) ==
    \/ prevState.omega > 0 /\ nextState.omega <= 0
    \/ prevState.omega < 0 /\ nextState.omega >= 0

\* mutant of TopReached: the pre-step tests on omega are not strict
TopReachedNonStrict(prevState, nextState) ==
    /\ prevState.theta > TopThreshold
    /\ \/ prevState.omega >= 0 /\ nextState.omega <= 0
       \/ prevState.omega <= 0 /\ nextState.omega >= 0

TopReached(prevState, nextState) ==
    /\ prevState.theta > TopThreshold
    /\ \/ prevState.omega > 0 /\ nextState.omega <= 0
       \/ prevState.omega < 0 /\ nextState.omega >= 0

\* mutant of SnapBottom: the residue of theta is kept
SnapBottomKeepsResidue(nextState) == nextState

\* the state after the snap of a fired stop condition
SnapBottom(nextState) == [nextState EXCEPT !.theta = 0]
SnapTop(nextState) == [nextState EXCEPT !.omega = 0]

\* what the loop does with the accumulator when a stop condition fires:
\* nothing (active = false ends the loop, the leftover stays)
AccAfterStop(acc) == acc

\* mutant of LoopCondition: a whole step left in the accumulator is not taken
LoopConditionStrict(acc) == acc > DT

\* the loop condition on the accumulator
LoopCondition(acc) == acc >= DT

\* mutant of PausedAccumulator: the paused branch keeps what was added
PausedAccumulatorKeeps(acc) == acc

\* the else branch: "If paused, just reset accumulator"
PausedAccumulator(acc) == 0

\* mutant of HasReference: the first frame is treated like any other
HasReferenceAlways(last) == TRUE

\* lastTimeRef.current !== undefined
HasReference(last) == last # Undefined

(***************************************************************************)
(* The drain loop of animate:                                              *)
(*   while (accumulatorRef.current >= DT && active) { ... }                *)
(* m is the mode the callback closed over; n counts the iterations.        *)
(***************************************************************************)
RECURSIVE Drain(_, _, _, _, _)

\* mutant of Stopped: active = false is missing, the loop goes on draining
StoppedKeepsDraining(snapped, acc2, m, p, n) ==
    [Drain(snapped, acc2, m, p, n + 1) EXCEPT !.mode = "PAUSED",
                                              !.fired = TRUE]

\* a fired stop: setMode(PAUSED); active = false ends the loop at this step
Stopped(snapped, acc2, m, p, n) ==
    [state |-> snapped, acc |-> AccAfterStop(acc2),
     mode |-> "PAUSED", steps |-> n + 1, fired |-> TRUE]

Drain(nextState, acc, m, p, n) ==
    IF LoopCondition(acc)
    THEN LET prevState == nextState
             stepped == updatePhysics(nextState, p, DT)
             acc2 == acc - DT
         IN  IF m = "PAUSE_AT_BOTTOM" /\ BottomCrossed(prevState, stepped)
             THEN Stopped(SnapBottom(stepped), acc2, m, p, n)
             ELSE IF m = "PAUSE_AT_TOP" /\ TopReached(prevState, stepped)
             THEN Stopped(SnapTop(stepped), acc2, m, p, n)
             ELSE Drain(stepped, acc2, m, p, n + 1)
    ELSE [state |-> nextState, acc |-> acc, mode |-> m, steps |-> n,
          fired |-> FALSE]

\* mutant of FrameParams: params is missing from the callback's dependencies
FrameParamsStale == INITIAL_PARAMS

\* the params the frame callback closed over: useCallback(..., [mode, params])
FrameParams == params

\* mutant of Publications: setState inside the loop, once per step
PublicationsPerStep(n) == n

\* setState(nextState) after the loop: one publication for n steps
Publications(n) == 1

\* frameTime = Math.min((time - lastTimeRef.current) / 1000, 0.1)
FrameTime(time, last) == Min(time - last, MaxFrameTime)

(***************************************************************************)
(* animate(time): one frame callback.                                      *)
(***************************************************************************)
animate(time) ==
    /\ IF HasReference(lastTimeRef)
       THEN LET acc1 == accumulatorRef + FrameTime(time, lastTimeRef)
            IN  IF mode # "PAUSED"
                THEN LET r == Drain(stateRef, acc1, mode, FrameParams, 0)
                     IN  /\ stateRef' = r.state
                         /\ state' = r.state
                         /\ accumulatorRef' = r.acc
                         /\ mode' = r.mode
                         /\ steps' = r.steps
                         /\ published' = Publications(r.steps)
                ELSE /\ accumulatorRef' = PausedAccumulator(acc1)
                     /\ steps' = 0
                     /\ published' = 0
                     /\ UNCHANGED <<stateRef, state, mode>>
       ELSE /\ steps' = 0
            /\ published' = 0
            /\ UNCHANGED <<stateRef, state, mode, accumulatorRef>>
    /\ lastTimeRef' = time
    /\ clock' = time
    /\ op' = "animate"
    /\ prevMode' = mode
    /\ UNCHANGED <<params, cmds, agm>>

\* the host delivers the next frame, d ms after the previous one
Frame ==
    \E d \in FrameDeltas :
        /\ clock + d <= MaxClock
        /\ animate(clock + d)
        /\ UNCHANGED back

\* the frames of a display that refreshes steadily, over a longer horizon
FrameSteady ==
    \E d \in SteadyDeltas :
        /\ clock + d <= MaxClockLong
        /\ animate(clock + d)
        /\ UNCHANGED back

\* a frame whose timestamp lies before the previous one
FrameBackward ==
    \E d \in BackwardDeltas :
        /\ back < MaxBackward
        /\ lastTimeRef # Undefined
        /\ clock - d >= 0
        /\ animate(clock - d)
        /\ back' = back + 1

(***************************************************************************)
(* User commands.                                                          *)
(***************************************************************************)
isRunning == mode \in {"RUNNING", "PAUSE_AT_BOTTOM", "PAUSE_AT_TOP"}

\* the play / pause button
TogglePlay ==
    /\ cmds < MaxCommands
    /\ mode' = IF isRunning THEN "PAUSED" ELSE "RUNNING"
    /\ op' = "setMode"
    /\ prevMode' = mode
    /\ cmds' = cmds + 1
    /\ published' = 0
    /\ UNCHANGED <<params, state, stateRef, lastTimeRef, accumulatorRef,
                   clock, steps, back, agm>>

\* the "pause at lowest point" button (disabled while selected)
SelectPauseAtBottom ==
    /\ cmds < MaxCommands
    /\ mode # "PAUSE_AT_BOTTOM"
    /\ mode' = "PAUSE_AT_BOTTOM"
    /\ op' = "setMode"
    /\ prevMode' = mode
    /\ cmds' = cmds + 1
    /\ published' = 0
    /\ UNCHANGED <<params, state, stateRef, lastTimeRef, accumulatorRef,
                   clock, steps, back, agm>>

\* the "pause at highest point (right)" button (disabled while selected)
SelectPauseAtTop ==
    /\ cmds < MaxCommands
    /\ mode # "PAUSE_AT_TOP"
    /\ mode' = "PAUSE_AT_TOP"
    /\ op' = "setMode"
    /\ prevMode' = mode
    /\ cmds' = cmds + 1
    /\ published' = 0
    /\ UNCHANGED <<params, state, stateRef, lastTimeRef, accumulatorRef,
                   clock, steps, back, agm>>

\* initializeState
initializeState ==
    /\ stateRef' = StartState(params)
    /\ state' = StartState(params)
    /\ published' = 1
    /\ accumulatorRef' = 0
    /\ lastTimeRef' = Undefined

\* mutant of handleReset: setMode(PAUSED) is missing
handleResetKeepsMode ==
    /\ cmds < MaxCommands
    /\ initializeState
    /\ op' = "reset"
    /\ prevMode' = mode
    /\ cmds' = cmds + 1
    /\ UNCHANGED <<params, mode, clock, steps, back, agm>>

\* the reset button
handleReset ==
    /\ cmds < MaxCommands
    /\ initializeState
    /\ mode' = "PAUSED"
    /\ op' = "reset"
    /\ prevMode' = mode
    /\ cmds' = cmds + 1
    /\ UNCHANGED <<params, clock, steps, back, agm>>

\* the length slider
ChangeLength ==
    /\ cmds < MaxCommands
    /\ \E l \in Lengths :
        /\ l # params.length
        /\ params' = [params EXCEPT !.length = l]
    /\ op' = "setParams"
    /\ prevMode' = mode
    /\ cmds' = cmds + 1
    /\ published' = 0
    /\ UNCHANGED <<state, stateRef, mode, lastTimeRef, accumulatorRef,
                   clock, steps, back, agm>>

\* the mass slider
ChangeMass ==
    /\ cmds < MaxCommands
    /\ \E w \in Masses :
        /\ w # params.mass
        /\ params' = [params EXCEPT !.mass = w]
    /\ op' = "setParams"
    /\ prevMode' = mode
    /\ cmds' = cmds + 1
    /\ published' = 0
    /\ UNCHANGED <<state, stateRef, mode, lastTimeRef, accumulatorRef,
                   clock, steps, back, agm>>

(***************************************************************************)
(* calculateExactPeriod (DataDisplay): the period by the arithmetic-       *)
(* geometric mean of 1 and cos(theta0 / 2).  a and b are held in units of  *)
(* 1e-9, the tolerance of the convergence test; the period in ms.          *)
(***************************************************************************)
AgmScale == 1000000000
Tolerance == 1
MaxIterations == 10
\* the value of Math.sqrt of a negative number, and of arithmetic on it
NaN == -2000000000
\* a * b does not fit a 32-bit integer: it is held in three limbs
LimbBase == 32768

\* the amplitudes (degrees) and the lengths (0.1 m) the function is called on
PeriodAngles == {0, 1, 10, 30, 60, 90, 120, 150, 179, 200}
PeriodLengths == {5, 10, 20, 40}

Abs(x) == IF x < 0 THEN -x ELSE x

\* u * v for 0 <= u, v < LimbBase^2, as <<high, middle, low>> limbs
Mul3(u, v) ==
    LET u1 == u \div LimbBase
        u0 == u % LimbBase
        v1 == v \div LimbBase
        v0 == v % LimbBase
        p0 == u0 * v0
        p1 == u1 * v0 + u0 * v1 + p0 \div LimbBase
    IN  <<u1 * v1 + p1 \div LimbBase, p1 % LimbBase, p0 % LimbBase>>

LessEq3(x, y) ==
    \/ x[1] < y[1]
    \/ x[1] = y[1] /\ x[2] < y[2]
    \/ x[1] = y[1] /\ x[2] = y[2] /\ x[3] <= y[3]

\* the largest x in lo..hi with x * x <= u * v, by bisection (the midpoint
\* is bound as an element of a one-element set, so it is a value computed
\* once on each level)
RECURSIVE SqrtSearch(_, _, _, _)
SqrtSearch(lo, hi, u, v) ==
    IF lo >= hi THEN lo
    ELSE CHOOSE r \in {IF LessEq3(Mul3(mid, mid), Mul3(u, v))
                       THEN SqrtSearch(mid, hi, u, v)
                       ELSE SqrtSearch(lo, mid - 1, u, v) :
                           mid \in {lo + (hi - lo + 1) \div 2}} : TRUE

\* Math.sqrt(u * v), rounded down; NaN for a negative product
Sqrt(u, v) ==
    IF u = NaN \/ v = NaN THEN NaN
    ELSE IF u = 0 \/ v = 0 THEN 0
    ELSE IF (u < 0) # (v < 0) THEN NaN
    ELSE SqrtSearch(Min(Abs(u), Abs(v)), IF Abs(u) > Abs(v) THEN Abs(u)
                                          ELSE Abs(v), Abs(u), Abs(v))

\* 0.5 * (u + v)
Half(u, v) == IF u = NaN \/ v = NaN THEN NaN ELSE Div(u + v, 2)

\* Math.cos(maxAngleDeg * (Math.PI / 180) / 2) in units of 1e-9
CosHalf(maxAngleDeg) ==
    CASE maxAngleDeg = 0 -> AgmScale
      [] maxAngleDeg = 1 -> 999961923
      [] maxAngleDeg = 10 -> 996194698
      [] maxAngleDeg = 30 -> 965925826
      [] maxAngleDeg = 60 -> 866025404
      [] maxAngleDeg = 90 -> 707106781
      [] maxAngleDeg = 120 -> 500000000
      [] maxAngleDeg = 150 -> 258819045
      [] maxAngleDeg = 179 -> 8726535
      [] maxAngleDeg = 200 -> -173648178

\* 2 * Math.PI * Math.sqrt(length / gravity), in ms
SmallAnglePeriod(length, gravity) ==
    Div(2 * PiScaled * Sqrt(Div(length * 1000000, gravity), 1), Scale)

\* (2 * Math.PI * Math.sqrt(length / gravity)) / a, in ms
PeriodOver(length, gravity, a) ==
    IF a = NaN THEN NaN
    ELSE Div(SmallAnglePeriod(length, gravity) * 100000, Div(a, 10000))

\* mutant of AgmContinue: the loop bound is off by one
AgmContinueOneMore(i) == i <= MaxIterations

\* for (let i = 0; i < 10; i++)
AgmContinue(i) == i < MaxIterations

\* mutant of AgmConverged: the difference is compared without Math.abs
\* and with the wrong sign
AgmConvergedWrongSign(a, b) == a # NaN /\ b # NaN /\ b - a > Tolerance

\* Math.abs(a - b) < 1e-9 (false on NaN)
AgmConverged(a, b) == a # NaN /\ b # NaN /\ Abs(a - b) < Tolerance

\* calculateExactPeriod is not being evaluated
AgmIdle ==
    [pc |-> "idle", length |-> 0, gravity |-> 0, maxAngleDeg |-> 0,
     a |-> 0, b |-> 0, i |-> 0, iters |-> 0, result |-> 0]

\* a call calculateExactPeriod(length, gravity, maxAngleDeg)
AgmCall(length, gravity, maxAngleDeg) ==
    [AgmIdle EXCEPT !.pc = "start", !.length = length, !.gravity = gravity,
                    !.maxAngleDeg = maxAngleDeg]

Program == <<params, state, stateRef, mode, lastTimeRef, accumulatorRef,
             clock, op, steps, prevMode, cmds, back, published>>

\* lines 56-63: the early return for maxAngleDeg === 0, else a = 1, b = cos
PeriodEnter ==
    /\ agm.pc = "start"
    /\ agm' = IF agm.maxAngleDeg = 0
              THEN [agm EXCEPT !.pc = "done",
                        !.result = SmallAnglePeriod(agm.length, agm.gravity)]
              ELSE [agm EXCEPT !.pc = "loop", !.a = AgmScale,
                               !.b = CosHalf(agm.maxAngleDeg), !.i = 0]
    /\ UNCHANGED Program

\* lines 66-75: one pass through the loop body
PeriodIterate ==
    /\ agm.pc = "loop"
    /\ AgmContinue(agm.i)
    /\ LET nextA == Half(agm.a, agm.b)
           nextB == Sqrt(agm.a, agm.b)
       IN  agm' = IF AgmConverged(agm.a, agm.b)
                  THEN [agm EXCEPT !.pc = "break", !.iters = @ + 1]
                  ELSE [agm EXCEPT !.a = nextA, !.b = nextB, !.i = @ + 1,
                                   !.iters = @ + 1]
    /\ UNCHANGED Program

\* line 78: the return after the loop
PeriodReturn ==
    /\ \/ agm.pc = "break"
       \/ agm.pc = "loop" /\ ~AgmContinue(agm.i)
    /\ agm' = [agm EXCEPT !.pc = "done",
                    !.result = PeriodOver(agm.length, agm.gravity, agm.a)]
    /\ UNCHANGED Program

calculateExactPeriod == PeriodEnter \/ PeriodIterate \/ PeriodReturn

(***************************************************************************)
(* Specifications.                                                         *)
(***************************************************************************)
InitProgram ==
    /\ params = INITIAL_PARAMS
    /\ state = StartState(INITIAL_PARAMS)
    /\ stateRef = StartState(INITIAL_PARAMS)
    /\ mode = "PAUSED"
    /\ lastTimeRef = Undefined
    /\ accumulatorRef = 0
    /\ clock = 0
    /\ op = "init"
    /\ steps = 0
    /\ prevMode = "PAUSED"
    /\ cmds = 0
    /\ back = 0
    /\ published = 1

Init == InitProgram /\ agm = AgmIdle

Command ==
    \/ TogglePlay
    \/ SelectPauseAtBottom
    \/ SelectPauseAtTop
    \/ handleReset
    \/ ChangeLength

Next == Frame \/ Command \/ ChangeMass

\* the host's clock is monotonic (requestAnimationFrame timestamps)
Spec == Init /\ [][Next]_vars

NextLong == FrameSteady \/ Command

\* the same program on a steadily refreshing display, over a longer horizon
SpecLong == Init /\ [][NextLong]_vars

\* the steps of FrameSteady, told by the clock: a frame is delivered.  It is
\* enabled exactly when FrameSteady is (animate accepts every timestamp)
FrameDelivered ==
    \E d \in SteadyDeltas :
        /\ clock + d <= MaxClockLong
        /\ clock' = clock + d

\* SpecLong with the frames that requestAnimationFrame keeps delivering: every
\* frame callback requests the next one (App.tsx:200)
SpecLive == Init /\ [][NextLong]_vars /\ WF_clock(FrameDelivered)

NextAnyClock == Frame \/ FrameBackward \/ Command \/ ChangeMass

\* the same program under a clock that may step back
SpecAnyClock == Init /\ [][NextAnyClock]_vars

\* calculateExactPeriod alone, called on every input of the bounded sets and
\* run to its return
InitPeriod ==
    /\ InitProgram
    /\ \E l \in PeriodLengths, d \in PeriodAngles : agm = AgmCall(l, GRAVITY, d)

NextPeriod == calculateExactPeriod

SpecPeriod == InitPeriod /\ [][NextPeriod]_vars /\ WF_vars(NextPeriod)

(***************************************************************************)
(* Vocabulary of the properties.                                           *)
(***************************************************************************)
\* this step is a frame call (only animate sets op to "animate")
IsFrameCall == op' = "animate"

\* the state after j integration steps with no pause condition applied
RECURSIVE Iterate(_, _, _)
Iterate(st, p, j) ==
    IF j = 0 THEN st ELSE Iterate(updatePhysics(st, p, DT), p, j - 1)

\* the accumulator of this frame call after the frame delta was added, with
\* the delta between the delivered and the stored timestamp clamped at 0.1 s
Filled == accumulatorRef + Min(lastTimeRef' - lastTimeRef, MaxFrameTime)

\* the four fields of the internal and of the published state
Physical(st) == <<st.theta, st.omega, st.alpha, st.time>>

(***************************************************************************)
(* C1  Pause idempotence: a frame call made while mode = PAUSED leaves     *)
(* theta, omega, alpha and time of the internal and of the published state *)
(* unchanged, performs no integration step and returns with the            *)
(* accumulator at 0, whatever the timestamp and however often repeated.    *)
(***************************************************************************)
C1_PauseIdempotence ==
    [][(IsFrameCall /\ mode = "PAUSED") =>
          /\ Physical(stateRef') = Physical(stateRef)
          /\ Physical(state') = Physical(state)
          /\ steps' = 0
          /\ accumulatorRef' = 0
          /\ mode' = "PAUSED"]_vars

\* a second consecutive frame call in PAUSED, after the simulation has run
C1_Witness ==
    /\ op = "animate" /\ prevMode = "PAUSED" /\ mode = "PAUSED"
    /\ stateRef.time > 0 /\ steps = 0 /\ accumulatorRef = 0

(***************************************************************************)
(* C2  Accumulator drain: a frame call in RUNNING with a stored reference  *)
(* timestamp, accumulator A before the call and clamped delta d performs   *)
(* exactly floor((A + d) / DT) integration steps and leaves                *)
(* (A + d) - DT * floor((A + d) / DT); with A = 0 and d = 50 ms that is    *)
(* 3 steps and 2 ms.                                                       *)
(***************************************************************************)
C2_AccumulatorDrain ==
    [][(IsFrameCall /\ mode = "RUNNING" /\ lastTimeRef # Undefined) =>
          /\ steps' = Filled \div DT
          /\ accumulatorRef' = Filled - DT * (Filled \div DT)
          /\ stateRef' = Iterate(stateRef, params, Filled \div DT)
          /\ (accumulatorRef = 0 /\ lastTimeRef' - lastTimeRef = 50
                => steps' = 3 /\ accumulatorRef' = 2)]_vars

\* the first integrating frame of a run: A = 0, d = 50 ms, 3 steps, 2 ms left
C2_Witness ==
    /\ op = "animate" /\ prevMode = "RUNNING" /\ mode = "RUNNING"
    /\ steps = 3 /\ accumulatorRef = 2 /\ stateRef.time = 3 * DT

(***************************************************************************)
(* C3  Zero-crossing detection: in a frame call made in PAUSE_AT_BOTTOM,   *)
(* if one of the integration steps the accumulator pays for takes theta    *)
(* from > 0 to <= 0 or from < 0 to >= 0, the mode becomes PAUSED and the   *)
(* state published for that frame has theta exactly 0.                     *)
(***************************************************************************)
ThetaSignChange(a, b) ==
    \/ a.theta > 0 /\ b.theta <= 0
    \/ a.theta < 0 /\ b.theta >= 0

C3_ZeroCrossing ==
    [][(IsFrameCall /\ mode = "PAUSE_AT_BOTTOM" /\ lastTimeRef # Undefined) =>
          ((\E j \in 1..(Filled \div DT) :
                ThetaSignChange(Iterate(stateRef, params, j - 1),
                                Iterate(stateRef, params, j)))
             => /\ mode' = "PAUSED"
                /\ state'.theta = 0
                /\ stateRef'.theta = 0)]_vars

\* a frame in PAUSE_AT_BOTTOM stopped the pendulum on its way through 0
C3_Witness ==
    /\ op = "animate" /\ prevMode = "PAUSE_AT_BOTTOM" /\ mode = "PAUSED"
    /\ steps > 0 /\ state.theta = 0 /\ state.omega < 0

\* the same on the way back, theta rising through 0
C3_WitnessUpward ==
    /\ op = "animate" /\ prevMode = "PAUSE_AT_BOTTOM" /\ mode = "PAUSED"
    /\ steps > 0 /\ state.theta = 0 /\ state.omega > 0

(***************************************************************************)
(* C4  Turning-point detection: a frame call made in PAUSE_AT_TOP moves to *)
(* PAUSED with omega snapped to 0 if and only if one of its integration    *)
(* steps starts at theta > 0.1 rad and changes the sign of omega (> 0 to   *)
(* <= 0, or < 0 to >= 0); otherwise, in particular when omega changes sign *)
(* on a step that starts at theta <= 0.1, the mode stays PAUSE_AT_TOP and  *)
(* the integrated state, omega included, is published unaltered.           *)
(***************************************************************************)
OmegaSignChange(a, b) ==
    \/ a.omega > 0 /\ b.omega <= 0
    \/ a.omega < 0 /\ b.omega >= 0

TurningStep(j) ==
    /\ Iterate(stateRef, params, j - 1).theta > TopThreshold
    /\ OmegaSignChange(Iterate(stateRef, params, j - 1),
                       Iterate(stateRef, params, j))

C4_TurningPoint ==
    [][(IsFrameCall /\ mode = "PAUSE_AT_TOP" /\ lastTimeRef # Undefined) =>
          IF \E j \in 1..(Filled \div DT) : TurningStep(j)
          THEN mode' = "PAUSED" /\ state'.omega = 0 /\ stateRef'.omega = 0
          ELSE /\ mode' = "PAUSE_AT_TOP"
               /\ state' = Iterate(stateRef, params, Filled \div DT)
               /\ stateRef' = state']_vars

\* a frame in PAUSE_AT_TOP stopped the pendulum at its right turning point
C4_Witness ==
    /\ op = "animate" /\ prevMode = "PAUSE_AT_TOP" /\ mode = "PAUSED"
    /\ steps > 0 /\ state.omega = 0 /\ state.theta > TopThreshold

\* a frame in PAUSE_AT_TOP integrated through the left turning point
\* (omega from < 0 to >= 0 at theta <= 0.1) and did not stop
C4_WitnessNoStop ==
    /\ op = "animate" /\ prevMode = "PAUSE_AT_TOP" /\ mode = "PAUSE_AT_TOP"
    /\ steps > 0 /\ state.theta < 0 /\ state.omega > 0
    /\ state.omega < TopThreshold

(***************************************************************************)
(* C5  Reset: after handleReset the internal and the published state are   *)
(* {theta: initialAngle*pi/180, omega: 0, alpha: 0, time: 0}, the          *)
(* accumulator is 0, no reference timestamp is stored and mode = PAUSED,   *)
(* whatever the state and the mode before.                                 *)
(***************************************************************************)
C5_ResetToStartup ==
    op = "reset" =>
        /\ Physical(stateRef)
             = <<Div(params.initialAngle * PiScaled, 180), 0, 0, 0>>
        /\ state = stateRef
        /\ accumulatorRef = 0
        /\ lastTimeRef = Undefined
        /\ mode = "PAUSED"

\* a reset issued in a stop mode, after a frame that integrated
C5_Witness ==
    /\ op = "reset" /\ prevMode = "PAUSE_AT_BOTTOM" /\ steps > 0
    /\ mode = "PAUSED" /\ stateRef.time = 0

(***************************************************************************)
(* C6  First frame: a frame call made while no reference timestamp is      *)
(* stored only records the timestamp: no integration step, nothing added   *)
(* to the accumulator, state and mode unchanged, in every mode.            *)
(***************************************************************************)
C6_FirstFrameOnlyRecords ==
    [][(IsFrameCall /\ lastTimeRef = Undefined) =>
          /\ steps' = 0
          /\ accumulatorRef' = accumulatorRef
          /\ stateRef' = stateRef
          /\ state' = state
          /\ mode' = mode
          /\ lastTimeRef' = clock']_vars

\* the first frame arrived in a mode that integrates, and integrated nothing
\* (every later frame in that mode integrates at least 3 steps)
C6_Witness ==
    /\ op = "animate" /\ prevMode = "PAUSE_AT_TOP" /\ mode = "PAUSE_AT_TOP"
    /\ steps = 0 /\ stateRef.time = 0 /\ lastTimeRef # Undefined

(***************************************************************************)
(* C7  Frame-delta clamping: for every two consecutive frame timestamps,   *)
(* also when the later one is the smaller, the amount added to the         *)
(* accumulator lies in [0, 0.1 s] and the accumulator is never negative.   *)
(***************************************************************************)
C7_FrameDeltaClamped ==
    [][(IsFrameCall /\ lastTimeRef # Undefined) =>
          /\ FrameTime(lastTimeRef', lastTimeRef) >= 0
          /\ FrameTime(lastTimeRef', lastTimeRef) <= MaxFrameTime
          /\ accumulatorRef' >= 0]_vars

(***************************************************************************)
(* C8  Accumulator bound: after every frame call in which the drain loop   *)
(* ran (the mode was not PAUSED at the call) the accumulator is < DT, also *)
(* when the loop ended because a stop condition fired.                     *)
(***************************************************************************)
C8_AccumulatorBelowDT ==
    (op = "animate" /\ prevMode # "PAUSED") => accumulatorRef < DT

(***************************************************************************)
(* C9  Accumulator cleared on pause: when a stop condition fires in        *)
(* PAUSE_AT_BOTTOM or PAUSE_AT_TOP the leftover is discarded, so the       *)
(* accumulator is 0 when that frame call returns; and the accumulator is 0 *)
(* in every state between frame calls in which mode = PAUSED.              *)
(***************************************************************************)
\* stated for the frame call in which the stop fires (the case the claim
\* names first; that state is also one between frame calls with mode = PAUSED)
C9_AccumulatorClearedOnPause ==
    (op = "animate" /\ prevMode \in {"PAUSE_AT_BOTTOM", "PAUSE_AT_TOP"}
       /\ mode = "PAUSED") => accumulatorRef = 0

(***************************************************************************)
(* C10  No catch-up burst on resume: the first frame call after the mode   *)
(* changed from PAUSED to RUNNING, PAUSE_AT_BOTTOM or PAUSE_AT_TOP         *)
(* integrates only its own clamped delta: at most floor(0.1 / DT) = 6      *)
(* integration steps.                                                      *)
(***************************************************************************)
C10_NoBurstOnResume ==
    [][(IsFrameCall /\ op = "setMode" /\ prevMode = "PAUSED"
          /\ mode # "PAUSED") =>
          steps' <= MaxFrameTime \div DT]_vars

(***************************************************************************)
(* C11  No automatic exit from RUNNING or PAUSED: a frame call never       *)
(* changes the mode when the mode is RUNNING or PAUSED.  The only mode     *)
(* change a frame call makes is PAUSE_AT_BOTTOM -> PAUSED or               *)
(* PAUSE_AT_TOP -> PAUSED, and only in a frame call that performed at      *)
(* least one integration step, the last of which met the stop condition of *)
(* that mode.                                                              *)
(***************************************************************************)
C11_ModeChangeOnlyByStop ==
    [][IsFrameCall =>
          /\ (mode \in {"RUNNING", "PAUSED"} => mode' = mode)
          /\ (mode' # mode =>
                /\ mode \in {"PAUSE_AT_BOTTOM", "PAUSE_AT_TOP"}
                /\ mode' = "PAUSED"
                /\ steps' >= 1
                /\ (mode = "PAUSE_AT_BOTTOM" =>
                      ThetaSignChange(Iterate(stateRef, params, steps' - 1),
                                      Iterate(stateRef, params, steps')))
                /\ (mode = "PAUSE_AT_TOP" => TurningStep(steps')))]_vars

\* a frame in RUNNING took the pendulum through the lowest point and on to
\* the left, and the mode is still RUNNING
C11_Witness ==
    /\ op = "animate" /\ prevMode = "RUNNING" /\ mode = "RUNNING"
    /\ steps > 0 /\ state.theta < 0 /\ state.omega < 0

(***************************************************************************)
(* C12  Alpha consistency: in every published state (after initialization  *)
(* or reset, after every frame call, after a stop has snapped theta or     *)
(* omega) alpha equals -(gravity/length)*sin(theta) of that same state.    *)
(***************************************************************************)
AlphaOf(st, p) == -Div(p.gravity * Sin(st.theta), p.length)

C12_AlphaConsistent == state.alpha = AlphaOf(state, params)

\* the same for the published states a stop has snapped (theta set to 0
\* after alpha was computed from the integrated theta)
C12_AlphaConsistentAfterSnap ==
    (op = "animate" /\ prevMode = "PAUSE_AT_BOTTOM" /\ mode = "PAUSED")
        => state.alpha = AlphaOf(state, params)

(***************************************************************************)
(* C13  Simulated time: between re-initializations time never decreases    *)
(* over frame calls and mode commands, and each frame call changes time by *)
(* exactly k*DT, k the number of integration steps performed in that frame *)
(* (k = 0 when PAUSED or on the first frame); so time is DT times the      *)
(* number of steps performed since the last re-initialization.             *)
(***************************************************************************)
C13_SimulatedTime ==
    [][/\ (IsFrameCall =>
             /\ stateRef'.time = stateRef.time + steps' * DT
             /\ state'.time = stateRef'.time
             /\ ((mode = "PAUSED" \/ lastTimeRef = Undefined) => steps' = 0))
       /\ (op' # "reset" =>
             /\ stateRef'.time >= stateRef.time
             /\ state'.time >= state.time)
       /\ (op' \notin {"animate", "reset"} =>
             stateRef'.time = stateRef.time)
       /\ (op' = "reset" => stateRef'.time = 0)
       /\ stateRef'.time % DT = 0]_vars

\* a catch-up frame of 7 steps on top of 18 earlier ones: time = 25 * DT
C13_Witness ==
    /\ op = "animate" /\ steps = 7 /\ stateRef.time = 25 * DT
    /\ state.time = stateRef.time

(***************************************************************************)
(* C14  Termination of the period computation: for every input             *)
(* calculateExactPeriod executes at most 10 loop iterations and then       *)
(* returns a value; it leaves the loop in the first iteration in which     *)
(* |a - b| < 1e-9; it performs no iteration and returns the small-angle    *)
(* value 2*pi*sqrt(length/gravity) when maxAngleDeg = 0.                   *)
(***************************************************************************)
WithinTolerance(a, b) == a # NaN /\ b # NaN /\ Abs(a - b) < Tolerance

C14_PeriodTerminates ==
    /\ [](agm.iters <= MaxIterations)
    /\ [][(agm.pc = "loop" /\ agm'.iters # agm.iters) =>
            IF WithinTolerance(agm.a, agm.b)
            THEN agm'.pc = "break" /\ agm'.a = agm.a
            ELSE agm'.pc = "loop" /\ agm'.i = agm.i + 1]_vars
    /\ [][agm.pc = "break" =>
            agm'.pc = "done" /\ agm'.iters = agm.iters]_vars
    /\ []((agm.pc = "done" /\ agm.maxAngleDeg = 0) =>
            /\ agm.iters = 0
            /\ agm.result = SmallAnglePeriod(agm.length, agm.gravity))
    /\ <>(agm.pc = "done")

\* the call the display makes at startup (length 2.0, amplitude 30 degrees)
\* returned after leaving the loop early, in its 4th iteration
C14_Witness ==
    /\ agm.pc = "done" /\ agm.maxAngleDeg = InitialAngle
    /\ agm.length = InitialLength
    /\ agm.iters = 4 /\ agm.i = 3 /\ agm.a = agm.b
    /\ agm.result > SmallAnglePeriod(agm.length, agm.gravity)

\* a call that used up the 10 iterations (cos(theta0 / 2) < 0: b is NaN)
C14_WitnessExhausted ==
    /\ agm.pc = "done" /\ agm.maxAngleDeg = 200 /\ agm.iters = MaxIterations
    /\ agm.result = NaN

\* a call with maxAngleDeg = 0
C14_WitnessZero ==
    /\ agm.pc = "done" /\ agm.maxAngleDeg = 0 /\ agm.iters = 0
    /\ agm.result > 0

(***************************************************************************)
(* C15  Stop ends the drain: within one frame call, once a stop condition  *)
(* fires no further integration step is performed in that frame even if    *)
(* the accumulator still holds at least DT; at most one stop fires per     *)
(* frame call; the snapped state of the firing step is the final state of  *)
(* the frame.                                                              *)
(***************************************************************************)
\* step j of the frame about to be made meets the stop condition of the mode
StopAt(j) ==
    IF mode = "PAUSE_AT_BOTTOM"
    THEN ThetaSignChange(Iterate(stateRef, params, j - 1),
                         Iterate(stateRef, params, j))
    ELSE TurningStep(j)

\* the state after step j with the snap of the mode applied
SnappedAt(j) ==
    IF mode = "PAUSE_AT_BOTTOM"
    THEN [Iterate(stateRef, params, j) EXCEPT !.theta = 0]
    ELSE [Iterate(stateRef, params, j) EXCEPT !.omega = 0]

C15_StopEndsDrain ==
    [][(IsFrameCall /\ mode \in {"PAUSE_AT_BOTTOM", "PAUSE_AT_TOP"}
          /\ lastTimeRef # Undefined /\ mode' = "PAUSED") =>
          /\ steps' >= 1
          /\ StopAt(steps')
          /\ \A j \in 1..(steps' - 1) : ~StopAt(j)
          /\ stateRef' = SnappedAt(steps')
          /\ state' = stateRef'
          /\ accumulatorRef' = Filled - steps' * DT]_vars

\* a stop fired in PAUSE_AT_BOTTOM with at least DT left in the accumulator:
\* the steps still due were not taken
C15_Witness ==
    /\ op = "animate" /\ prevMode = "PAUSE_AT_BOTTOM" /\ mode = "PAUSED"
    /\ steps >= 1 /\ accumulatorRef >= DT /\ stateRef.theta = 0

(***************************************************************************)
(* C16  Publish once per frame: a frame call publishes the state at most   *)
(* once (never once per integration step), after all steps due in that     *)
(* frame; after every frame call and every re-initialization the published *)
(* state equals the internal state stateRef, the snapped theta or omega    *)
(* included when a stop fired.                                             *)
(***************************************************************************)
C16_PublishOncePerFrame ==
    /\ state = stateRef
    /\ (op = "animate" => published <= 1)
    /\ (op \in {"init", "reset"} => published = 1)
    /\ ((op = "animate" /\ prevMode = "PAUSE_AT_BOTTOM" /\ mode = "PAUSED")
          => state.theta = 0)
    /\ ((op = "animate" /\ prevMode = "PAUSE_AT_TOP" /\ mode = "PAUSED")
          => state.omega = 0)

\* a frame of 6 integration steps published once, and what it published is
\* the state after the last of them
C16_Witness ==
    /\ op = "animate" /\ prevMode = "RUNNING" /\ steps = 6
    /\ published = 1 /\ state = stateRef /\ state.time >= steps * DT

(***************************************************************************)
(* C17  PAUSE_AT_TOP edge policy.                                          *)
(***************************************************************************)
\* C17 as stated: a step taken in PAUSE_AT_TOP whose pre-step omega is
\* exactly 0 (at theta > 0.1) fires the stop, the second fire of a double
\* fire across two adjacent steps
C17_DoubleFire ==
    [][(IsFrameCall /\ mode = "PAUSE_AT_TOP" /\ lastTimeRef # Undefined
          /\ Filled >= DT
          /\ stateRef.omega = 0 /\ stateRef.theta > TopThreshold) =>
          (mode' = "PAUSED" /\ steps' = 1)]_vars

\* pre- and post-step states around omega = 0 at theta > 0.1
EdgeState(om) == [theta |-> 2 * TopThreshold, omega |-> om,
                  alpha |-> 0, time |-> 0]

\* C17 amended: in PAUSE_AT_TOP a step that lands omega exactly on 0 (pre-
\* step omega > 0, post-step omega = 0, pre-step theta > 0.1) fires the stop,
\* and a step whose pre-step omega is exactly 0 never fires it: there is no
\* double fire, a frame that starts from rest integrates on
C17_NoFireFromRest ==
    /\ [][(IsFrameCall /\ mode = "PAUSE_AT_TOP" /\ lastTimeRef # Undefined) =>
            \A j \in 1..(Filled \div DT) :
                /\ (Iterate(stateRef, params, j - 1).omega = 0 =>
                      ~(mode' = "PAUSED" /\ steps' = j))
                /\ (( /\ Iterate(stateRef, params, j - 1).omega > 0
                       /\ Iterate(stateRef, params, j).omega = 0
                       /\ Iterate(stateRef, params, j - 1).theta
                            > TopThreshold
                       /\ \A k \in 1..(j - 1) : ~TurningStep(k)) =>
                      (mode' = "PAUSED" /\ steps' = j))]_vars
    /\ [](\A om \in {1, 373, 529} :
            /\ TopReached(EdgeState(om), EdgeState(0))
            /\ ~TopReached(EdgeState(0), EdgeState(-om))
            /\ ~TopReached(EdgeState(0), EdgeState(om))
            /\ ~TopReached(EdgeState(0), EdgeState(0)))

\* a frame in PAUSE_AT_TOP started from rest at theta = 30 degrees (the
\* first step has pre-step omega exactly 0), integrated and did not stop
C17_Witness ==
    /\ op = "animate" /\ prevMode = "PAUSE_AT_TOP" /\ mode = "PAUSE_AT_TOP"
    /\ steps >= 1 /\ stateRef.time = steps * DT /\ stateRef.omega < 0
    /\ stateRef.theta > TopThreshold

(***************************************************************************)
(* C18  Changing mass or length between frames does not re-initialize the  *)
(* simulation: it leaves theta, omega, alpha, time, the accumulator, the   *)
(* stored reference timestamp and the mode unchanged, and the new values   *)
(* are used by the integration steps of the next frame call; only a reset  *)
(* (or a change of initialAngle, for which the panel has no control)       *)
(* re-initializes the state.                                               *)
(***************************************************************************)
C18_ParamsChangeKeepsState ==
    [][/\ (op' = "setParams" =>
             /\ params' # params
             /\ params'.initialAngle = params.initialAngle
             /\ UNCHANGED <<state, stateRef, accumulatorRef, lastTimeRef,
                            mode>>)
       /\ ((IsFrameCall /\ mode = "RUNNING" /\ lastTimeRef # Undefined) =>
             /\ params' = params
             /\ stateRef' = Iterate(stateRef, params, Filled \div DT)
             /\ state' = stateRef')
       /\ ((lastTimeRef # Undefined /\ lastTimeRef' = Undefined) =>
             op' = "reset")
       /\ (stateRef'.time < stateRef.time => op' = "reset")]_vars

\* the length slider was moved to 0.5 m and a later frame of the running
\* simulation integrated with the new length: alpha is that of 0.5 m
C18_Witness ==
    /\ op = "animate" /\ prevMode = "RUNNING" /\ steps > 0
    /\ params.length = 5 /\ params.length # InitialLength
    /\ stateRef.time > steps * DT
    /\ stateRef.alpha = AlphaOf(stateRef, params)

\* the mass was changed between two frames of a running simulation
C18_WitnessMass ==
    /\ op = "animate" /\ prevMode = "RUNNING" /\ steps > 0
    /\ params.mass # InitialMass /\ stateRef.time > steps * DT

(***************************************************************************)
(* C19  Eventual halt at the lowest point: if mode = PAUSE_AT_BOTTOM, the  *)
(* pendulum is not at rest at the bottom (theta # 0 or omega # 0), frame   *)
(* calls keep arriving with positive deltas and no command or reset        *)
(* intervenes, then the mode eventually becomes PAUSED with published      *)
(* theta = 0; before that at least one integration step has been performed *)
(* since the mode was selected, also when it was selected in a state with  *)
(* theta exactly 0.  (Within the horizon: the halt is awaited when         *)
(* HaltWindow ms of frames are still to come; a command that intervenes is *)
(* a step with op # "animate".)                                            *)
(***************************************************************************)
C19_EventualHalt ==
    /\ (/\ mode = "PAUSE_AT_BOTTOM"
        /\ (stateRef.theta # 0 \/ stateRef.omega # 0)
        /\ clock <= MaxClockLong - HaltWindow)
          ~> (\/ op = "animate" /\ mode = "PAUSED" /\ state.theta = 0
              \/ op # "animate")
    /\ []((op = "animate" /\ prevMode = "PAUSE_AT_BOTTOM" /\ mode # prevMode)
            => (steps >= 1 /\ mode = "PAUSED" /\ state.theta = 0))

\* PAUSE_AT_BOTTOM was selected where an earlier halt had left the pendulum,
\* at theta exactly 0, or while it swung back; the pendulum went through the
\* left turning point and halted on its way back up through 0
C19_Witness ==
    /\ op = "animate" /\ prevMode = "PAUSE_AT_BOTTOM" /\ mode = "PAUSED"
    /\ steps >= 1 /\ state.theta = 0 /\ state.omega > 0
    /\ cmds = MaxCommands /\ params.length = InitialLength

=============================================================================
